---- MODULE Spec2Model ----
(***************************************************************************)
(* Model of the Dirac atom solver of MuDirac (atom.cpp): grid limits,      *)
(* node search (convergeNodes), energy refinement (convergeE and           *)
(* convergeState) and the state cache (calcState / getState).              *)
(*                                                                         *)
(* Numbers.  Energies are doubles in the code.  Here an energy is an       *)
(* integer count of representable steps: arithmetic that is exact in the   *)
(* code is exact here, and a division rounds to the nearest step, ties to  *)
(* even, as IEEE double arithmetic does.  Non finite values (NaN, +inf,    *)
(* -inf) are separate tagged values.                                       *)
(*                                                                         *)
(* Numerical integration (boundaryDiracCoulomb, shootDiracLog, ...) is not *)
(* part of atom.cpp: its results (node counts, the energy correction dE,   *)
(* the radii of gridLimits that go through log, pow and sqrt) are inputs   *)
(* drawn from small sets.                                                  *)
(***************************************************************************)
EXTENDS Integers, Sequences, FiniteSets, TLC

VARIABLES
    Z,          \* Atom::Z, nuclear charge
    R,          \* Atom::R as a grid position: R > grid[i] iff i < R; PointLike for R <= 0
    in_eps,     \* DiracAtom::in_eps, in units of 1/EpsOne
    out_eps,    \* DiracAtom::out_eps, in units of 1/EpsOne
    maxit,      \* DiracAtom::maxit, the iteration budget of the loops
    states,     \* DiracAtom::states, the cache: key <<n, l, s>> -> DiracState or Absent
    pc,         \* the operation in progress and its position
    gl,         \* gridLimits: the last call and its outcome
    cn,         \* convergeNodes: arguments, locals and outcome
    ce,         \* convergeE: arguments, locals and outcome
    cs,         \* calcState / convergeState / getState: arguments, locals and outcome
    nodesOf,    \* the node count of P the integrator yields at each energy, once integrated
    el,         \* energyLimits: the last call and the bracket it returned
    pv          \* a potential's V(r): the potential, its parameters, r and the outcome

vars == <<Z, R, in_eps, out_eps, maxit, states, pc, gl, cn, ce, cs, nodesOf, el, pv>>

atom == <<Z, R, in_eps, out_eps, maxit>>

(***************************************************************************)
(* Bounds and units                                                        *)
(***************************************************************************)
\* restE = mu * c^2, in energy steps
restE == 8
\* 1 / alpha, rounded: gamma = k^2 - (Z * alpha)^2
AlphaInv == 137
\* the iteration budgets (DiracAtom::maxit) the node search, the refiners
\* and the cache are followed with
MaxitNodes == 4

MaxitRefine == 3

MaxitAtom == 2
\* the value 1.0 of in_eps and out_eps
EpsOne == 2
\* what a double to int conversion of an infinite value leaves behind
IntMax == 1000

IntMin == -IntMax

Abs(x) == IF x < 0 THEN -x ELSE x

Max(a, b) == IF a >= b THEN a ELSE b

Min(a, b) == IF a <= b THEN a ELSE b

\* a / b for b > 0, rounded to the nearest step, ties to even
RoundDiv(a, b) ==
    LET q == a \div b
        r == a % b
    IN  IF 2 * r < b THEN q
        ELSE IF 2 * r > b THEN q + 1
        ELSE IF q % 2 = 0 THEN q ELSE q + 1

\* floor and ceil of x2 / 2
Floor2(x2) == x2 \div 2

Ceil2(x2) == -((-x2) \div 2)

PointLike == IntMin - 1

NoErr == [type |-> "none", what |-> "none"]

AtomErrorCode(c) == [type |-> "AtomErrorCode", what |-> c]

RuntimeError(m) == [type |-> "runtime_error", what |-> m]

RawLiteral(m) == [type |-> "const char *", what |-> m]

(***************************************************************************)
(* gridLimits                                                              *)
(***************************************************************************)
\* K = (mu c)^2 - (E / c)^2, times c^2 > 0: the sign the code tests
KTerm(E) == restE * restE - E * E

\* gamma = k^2 - (Z alpha)^2, times 1 / alpha^2 > 0
GammaTerm(k, z) == k * k * AlphaInv * AlphaInv - z * z

\* The radii r_in, r_tp, r_out come out of sqrt, log and pow; as grid
\* positions 2 * log(r / rc) / dx they are drawn from these sets.
XIn == {-3, 1}

XTp == {0}

XOutGap == {3}

GridOk(i0, i1) == [err |-> NoErr, i0 |-> i0, i1 |-> i1]

GridErr(e) == [err |-> e, i0 |-> 0, i1 |-> 0]

GridLimitsNumeric(E, k, z, ie, oe) ==
    IF KTerm(E) = 0 /\ E > 0
    THEN \* r_tp = Z / 0 and r_out, r_in are infinite: both conversions to int are undefined
         {GridOk(g, h) : g \in {IntMin, IntMax}, h \in {IntMin, IntMax}}
    ELSE IF KTerm(E) = 0
    THEN \* r_in = +inf > r_tp (or NaN when gamma = 0 or in_eps = 0: undefined index)
         IF GammaTerm(k, z) > 0 /\ ie # 0
         THEN {GridErr(RuntimeError("Inner grid radius is too small"))}
         ELSE {GridOk(g, h) : g \in {IntMin, IntMax}, h \in {IntMin, IntMax}}
    ELSE UNION {
         LET xout == IF oe = EpsOne THEN xtp ELSE xtp + gap
             i1s  == IF oe = 0 THEN {IntMin, IntMax} ELSE {Ceil2(xout)}
             i0s  == IF ie = 0 \/ GammaTerm(k, z) = 0 THEN {IntMin, IntMax} ELSE {Floor2(xin)}
         IN  IF ie # 0 /\ GammaTerm(k, z) # 0 /\ xin > xtp
             THEN {GridErr(RuntimeError("Inner grid radius is too small"))}
             ELSE {GridOk(i0, i1) : i0 \in i0s, i1 \in i1s}
         : xin \in XIn, xtp \in XTp, gap \in XOutGap }

\* gridLimits with the centrifugal term refused at zero as well (gamma <= 0)
GridLimitsOf_GammaLeq(E, k, z, ie, oe) ==
    IF KTerm(E) < 0 THEN {GridErr(AtomErrorCode("UNBOUND_STATE"))}
    ELSE IF GammaTerm(k, z) <= 0 THEN {GridErr(AtomErrorCode("SMALL_GAMMA"))}
    ELSE IF oe > EpsOne \/ oe < 0 THEN {GridErr(RuntimeError("Invalid value for out_eps"))}
    ELSE IF ie > EpsOne \/ ie < 0 THEN {GridErr(RuntimeError("Invalid value for in_eps"))}
    ELSE GridLimitsNumeric(E, k, z, ie, oe)

\* DiracAtom::gridLimits(E, k): the set of its possible outcomes
GridLimitsOf(E, k, z, ie, oe) ==
    IF KTerm(E) < 0 THEN {GridErr(AtomErrorCode("UNBOUND_STATE"))}
    ELSE IF GammaTerm(k, z) < 0 THEN {GridErr(AtomErrorCode("SMALL_GAMMA"))}
    ELSE IF oe > EpsOne \/ oe < 0 THEN {GridErr(RuntimeError("Invalid value for out_eps"))}
    ELSE IF ie > EpsOne \/ ie < 0 THEN {GridErr(RuntimeError("Invalid value for in_eps"))}
    ELSE GridLimitsNumeric(E, k, z, ie, oe)

gridLimits(E, k) == GridLimitsOf(E, k, Z, in_eps, out_eps)

(***************************************************************************)
(* DiracState                                                              *)
(***************************************************************************)
\* DiracState::init of a default constructed state (declared in atom.hpp)
DefaultInit == FALSE

\* A DiracState.  lenP is the size of P, Q, grid and loggrid, lenV the size
\* of V; wf lists what has been done to P and Q since they were allocated.
MakeState(E, k, nodes, nodesQ, init, i0, i1, lenP, lenV, wf) ==
    [E |-> E, k |-> k, nodes |-> nodes, nodesQ |-> nodesQ, init |-> init,
     i0 |-> i0, i1 |-> i1, lenP |-> lenP, lenV |-> lenV, wf |-> wf]

\* State::State() and DiracState::DiracState(int N = 0)
DefaultState == MakeState(0, 0, 0, 0, DefaultInit, 0, 0, 0, 0, <<>>)

\* DiracState::DiracState(double rc, double dx, int i0, int i1)
GridState(i0, i1) ==
    MakeState(0, 0, 0, 0, DefaultInit, i0, i1, i1 - i0 + 1, i1 - i0 + 1, <<>>)

\* the vectors of DiracState(rc, dx, i0, i1) can be allocated
GridSizeOk(g) == g.i1 - g.i0 + 1 >= 0

LengthError == [type |-> "length_error", what |-> "vector"]

\* R > state.grid[0]
InsideNucleus(st) == R # PointLike /\ st.i0 < R

\* DiracAtom::initState(E, k): its possible outcomes
initState(E, k) ==
    { IF g.err # NoErr THEN [err |-> g.err, state |-> DefaultState]
      ELSE IF ~GridSizeOk(g) THEN [err |-> LengthError, state |-> DefaultState]
      ELSE [err |-> NoErr, state |-> [GridState(g.i0, g.i1) EXCEPT !.k = k, !.E = E]]
      : g \in gridLimits(E, k) }

(***************************************************************************)
(* Idle values of the operations' locals                                   *)
(***************************************************************************)
\* the empty std::map
EmptyCache == <<>>

GlIdle == [E |-> 0, k |-> 0, out |-> GridErr(NoErr), state |-> DefaultState]

\* an int that was never assigned
Garbage == IntMin - 2

\* no energy: the ghost value of "never integrated"
NoEnergy == IntMin - 3

CnRec(targ, minE0, maxE0, minE, maxE, El, Er, oldEl, oldEr, nl, nr, it, state, nlAt, nrAt, integ, last, err) ==
    [targ |-> targ, minE0 |-> minE0, maxE0 |-> maxE0, minE |-> minE, maxE |-> maxE,
     El |-> El, Er |-> Er, oldEl |-> oldEl, oldEr |-> oldEr, nl |-> nl, nr |-> nr,
     it |-> it, state |-> state, nlAt |-> nlAt, nrAt |-> nrAt, integ |-> integ,
     last |-> last, err |-> err,
     \* the energies the two trials had in the iteration before this one
     prevEl |-> NoEnergy, prevEr |-> NoEnergy]

CnIdle ==
    CnRec(0, 0, 0, 0, 0, 0, 0, 0, 0, Garbage, Garbage, 0, DefaultState,
          NoEnergy, NoEnergy, 0, NoEnergy, NoErr)

\* a double: finite (kind "fin", value v), NaN, +inf or -inf
Fin(v) == [kind |-> "fin", v |-> v]

NaN == [kind |-> "nan", v |-> 0]

PInf == [kind |-> "pinf", v |-> 0]

NInf == [kind |-> "ninf", v |-> 0]

NoKey == <<0, 0, FALSE>>

CeRec(E, k, it, state, integ, lastdE, conv, err) ==
    [E |-> E, k |-> k, it |-> it, state |-> state, integ |-> integ,
     lastdE |-> lastdE, conv |-> conv, err |-> err]

CeIdle == CeRec(0, 0, 0, DefaultState, 0, Fin(0), FALSE, NoErr)

CsRec(op, key, k, E0, cit, E, it, state, integ, lastdE, conv, result, hit, calls, err) ==
    [op |-> op, key |-> key, k |-> k, E0 |-> E0, cit |-> cit, E |-> E, it |-> it,
     state |-> state, integ |-> integ, lastdE |-> lastdE, conv |-> conv,
     result |-> result, hit |-> hit, calls |-> calls, err |-> err]

\* energyLimits not called yet
ElIdle == [nodes |-> 0, k |-> 0, minE |-> 0, maxE |-> 0]

\* no potential evaluated yet
PvIdle == [pot |-> "none", R |-> 0, lo |-> 0, hi |-> 0, r |-> 0,
           out |-> [err |-> NoErr, val |-> "none"]]

CsIdle ==
    CsRec("none", NoKey, 0, 0, 0, 0, 0, DefaultState, 0, Fin(0), FALSE,
          DefaultState, FALSE, 0, NoErr)

(***************************************************************************)
(* Specification of gridLimits and initState on their own                  *)
(***************************************************************************)
ZVals == {1, 137, 138}

EpsVals == {-1, 0, 1, EpsOne, EpsOne + 1}

GridEnergies == {-restE - 1, -restE, -1, 0, restE - 1, restE, restE + 1}

KVals == {-2, -1, 1, 2}

InitGrid ==
    /\ Z \in ZVals
    /\ R = PointLike
    /\ in_eps \in EpsVals
    /\ out_eps \in EpsVals
    /\ maxit = MaxitAtom
    /\ states = EmptyCache
    /\ pc = "idle"
    /\ gl = GlIdle
    /\ cn = CnIdle
    /\ ce = CeIdle
    /\ cs = CsIdle
    /\ nodesOf = <<>>
    /\ el = ElIdle
    /\ pv = PvIdle

GridLimitsCall ==
    \E E \in GridEnergies, k \in KVals :
        \E g \in gridLimits(E, k) :
            /\ gl' = [E |-> E, k |-> k, out |-> g, state |-> DefaultState]
            /\ pc' = "gridLimits"
            /\ UNCHANGED <<atom, pv, el, states, cn, ce, cs, nodesOf>>

InitStateCall ==
    \E E \in GridEnergies, k \in KVals :
        \E o \in initState(E, k) :
            /\ gl' = [E |-> E, k |-> k, out |-> GridErr(o.err), state |-> o.state]
            /\ pc' = "initState"
            /\ UNCHANGED <<atom, pv, el, states, cn, ce, cs, nodesOf>>

NextGrid == GridLimitsCall \/ InitStateCall

SpecGrid == InitGrid /\ [][NextGrid]_vars

(***************************************************************************)
(* convergeNodes                                                           *)
(***************************************************************************)
NodeVals == 0..2

\* nodes of Q minus nodes of P, as the integrator may leave them
NodeQGap == {0, 1}

\* the node count of P at energy E: what was found there before, else any
NodesAt(E) == IF E \in DOMAIN nodesOf THEN {nodesOf[E]} ELSE NodeVals

Remember(E, v) ==
    [e \in (DOMAIN nodesOf) \cup {E} |-> IF e = E THEN v ELSE nodesOf[e]]

\* One trial of convergeNodes: gridLimits, DiracState(rc, dx, i0, i1), k, E,
\* getV, integrateState, continuify, findNodes.  The set of outcomes.
NodeTrial(E, k) ==
    UNION {
        IF g.err # NoErr THEN {[err |-> g.err, set |-> FALSE, state |-> DefaultState]}
        ELSE IF ~GridSizeOk(g)
        THEN {[err |-> LengthError, set |-> FALSE, state |-> DefaultState]}
        ELSE IF g.i1 - g.i0 + 1 = 0
        THEN {[err |-> RuntimeError("Can not integrate state with zero-sized grid"),
               set |-> TRUE,
               state |-> [GridState(g.i0, g.i1) EXCEPT !.k = k, !.E = E]]}
        ELSE {[err |-> NoErr, set |-> TRUE,
               state |-> [GridState(g.i0, g.i1) EXCEPT !.k = k, !.E = E,
                              !.wf = <<"integrate", "continuify">>,
                              !.nodes = v, !.nodesQ = v + q]]
              : v \in NodesAt(E), q \in NodeQGap}
        : g \in gridLimits(E, k) }

NodalError == RuntimeError("convergeNodes failed - higher number of nodes for lower energy")

NodesMaxitError == RuntimeError("convergeNodes failed to find a suitable state - maximum iterations hit")

\* convergeNodes(state, tp, targ_nodes, minE, maxE): entry, lines 419-430
ConvergeNodesCall(st, targ, minE, maxE) ==
    /\ pc = "idle"
    /\ cn' = CnRec(targ, minE, maxE, minE, maxE,
                   minE + RoundDiv(maxE - minE, 3), maxE - RoundDiv(maxE - minE, 3),
                   maxE + 1, maxE + 1, Garbage, Garbage, 0, st,
                   NoEnergy, NoEnergy, 0, NoEnergy,
                   IF maxit > 0 THEN NoErr ELSE NodesMaxitError)
    /\ pc' = IF maxit > 0 THEN "cn_left" ELSE "cn_done"
    /\ UNCHANGED <<atom, pv, el, states, gl, ce, cs, nodesOf>>

\* lines 433-449: the lower trial
CnLeft ==
    /\ pc = "cn_left"
    /\ IF cn.El # cn.oldEl
       THEN \E o \in NodeTrial(cn.El, cn.state.k) :
              IF o.err # NoErr
              THEN /\ cn' = [cn EXCEPT !.err = o.err,
                                       !.state = IF o.set THEN o.state ELSE cn.state]
                   /\ pc' = "cn_failed"
                   /\ UNCHANGED nodesOf
              ELSE /\ cn' = [cn EXCEPT !.state = o.state, !.nl = o.state.nodes,
                                       !.nlAt = cn.El, !.integ = @ + 1, !.last = cn.El]
                   /\ nodesOf' = Remember(cn.El, o.state.nodes)
                   /\ pc' = IF o.state.nodes = cn.targ THEN "cn_done" ELSE "cn_right"
       ELSE /\ pc' = "cn_right"
            /\ UNCHANGED <<cn, nodesOf>>
    /\ UNCHANGED <<atom, pv, el, states, gl, ce, cs>>

\* lines 451-467: the upper trial
CnRight ==
    /\ pc = "cn_right"
    /\ IF cn.Er # cn.oldEr
       THEN \E o \in NodeTrial(cn.Er, cn.state.k) :
              IF o.err # NoErr
              THEN /\ cn' = [cn EXCEPT !.err = o.err,
                                       !.state = IF o.set THEN o.state ELSE cn.state]
                   /\ pc' = "cn_failed"
                   /\ UNCHANGED nodesOf
              ELSE /\ cn' = [cn EXCEPT !.state = o.state, !.nr = o.state.nodes,
                                       !.nrAt = cn.Er, !.integ = @ + 1, !.last = cn.Er]
                   /\ nodesOf' = Remember(cn.Er, o.state.nodes)
                   /\ pc' = IF o.state.nodes = cn.targ THEN "cn_done" ELSE "cn_classify"
       ELSE /\ pc' = "cn_classify"
            /\ UNCHANGED <<cn, nodesOf>>
    /\ UNCHANGED <<atom, pv, el, states, gl, ce, cs>>

\* the value read from an int: any value when it was never assigned
ReadInt(v) == IF v = Garbage THEN NodeVals ELSE {v}

\* CnUpdate with the upper trial moved by the sum instead of the mean
CnUpdate_NoHalving(c, nl, nr) ==
    LET dl == nl - c.targ
        dr == nr - c.targ
        d  == [c EXCEPT !.nl = nl, !.nr = nr, !.it = @ + 1,
                        !.prevEl = c.El, !.prevEr = c.Er]
    IN  IF dl > 0 /\ dr > 0
        THEN [d EXCEPT !.oldEr = c.Er, !.Er = c.El,
                       !.El = RoundDiv(c.minE + c.El, 2), !.maxE = c.El]
        ELSE IF dl < 0 /\ dr < 0
        THEN [d EXCEPT !.oldEl = c.El, !.El = c.Er,
                       !.Er = c.maxE + c.Er, !.minE = c.Er]
        ELSE IF dl < 0 /\ dr > 0
        THEN [d EXCEPT !.oldEl = c.El, !.minE = c.El,
                       !.El = RoundDiv(c.El + c.Er, 2)]
        ELSE [d EXCEPT !.it = c.it, !.err = NodalError]

\* lines 471-502 and the loop test of line 430; nl and nr are the counts read
CnUpdate(c, nl, nr) ==
    LET dl == nl - c.targ
        dr == nr - c.targ
        d  == [c EXCEPT !.nl = nl, !.nr = nr, !.it = @ + 1,
                        !.prevEl = c.El, !.prevEr = c.Er]
    IN  IF dl > 0 /\ dr > 0
        THEN [d EXCEPT !.oldEr = c.Er, !.Er = c.El,
                       !.El = RoundDiv(c.minE + c.El, 2), !.maxE = c.El]
        ELSE IF dl < 0 /\ dr < 0
        THEN [d EXCEPT !.oldEl = c.El, !.El = c.Er,
                       !.Er = RoundDiv(c.maxE + c.Er, 2), !.minE = c.Er]
        ELSE IF dl < 0 /\ dr > 0
        THEN [d EXCEPT !.oldEl = c.El, !.minE = c.El,
                       !.El = RoundDiv(c.El + c.Er, 2)]
        ELSE [d EXCEPT !.it = c.it, !.err = NodalError]

\* CnClassify leaving the loop without the throw of line 505
CnClassify_ReturnsOnMaxit ==
    /\ pc = "cn_classify"
    /\ \E nl \in ReadInt(cn.nl), nr \in ReadInt(cn.nr) :
         LET d == CnUpdate(cn, nl, nr)
         IN  IF d.err # NoErr
             THEN cn' = d /\ pc' = "cn_failed"
             ELSE IF d.it < maxit
             THEN cn' = d /\ pc' = "cn_left"
             ELSE cn' = d /\ pc' = "cn_done"
    /\ UNCHANGED <<atom, pv, el, states, gl, ce, cs, nodesOf>>

CnClassify ==
    /\ pc = "cn_classify"
    /\ \E nl \in ReadInt(cn.nl), nr \in ReadInt(cn.nr) :
         LET d == CnUpdate(cn, nl, nr)
         IN  IF d.err # NoErr
             THEN cn' = d /\ pc' = "cn_failed"
             ELSE IF d.it < maxit
             THEN cn' = d /\ pc' = "cn_left"
             ELSE cn' = [d EXCEPT !.err = NodesMaxitError] /\ pc' = "cn_failed"
    /\ UNCHANGED <<atom, pv, el, states, gl, ce, cs, nodesOf>>

(***************************************************************************)
(* Specification of convergeNodes on its own, as the test drives it        *)
(***************************************************************************)
CnEnds == {-restE, 0, 2, 4, 6, restE, restE + 3}

CnTargets == {1}

InitNodes ==
    /\ Z = 1
    /\ R = PointLike
    /\ in_eps = 1
    /\ out_eps = 1
    /\ maxit = MaxitNodes
    /\ states = EmptyCache
    /\ pc = "idle"
    /\ gl = GlIdle
    /\ cn = CnIdle
    /\ ce = CeIdle
    /\ cs = CsIdle
    /\ nodesOf = <<>>
    /\ el = ElIdle
    /\ pv = PvIdle

NodesCall ==
    \E targ \in CnTargets, minE \in CnEnds, maxE \in CnEnds :
        ConvergeNodesCall([DefaultState EXCEPT !.k = -1], targ, minE, maxE)

NextNodes == NodesCall \/ CnLeft \/ CnRight \/ CnClassify

SpecNodes == InitNodes /\ [][NextNodes]_vars

(***************************************************************************)
(* Energy refinement: convergeE and convergeState                          *)
(***************************************************************************)
\* DiracAtom::Etol, in energy steps
Etol == 2

\* DiracAtom::Edamp and DiracAtom::max_dE_ratio, as fractions
Edamp == [num |-> 1, den |-> 2]

max_dE_ratio == [num |-> 1, den |-> 2]

\* the energy corrections the integrator may suggest
DeVals == {Fin(0), Fin(1), Fin(3), Fin(6), Fin(-6), NaN, PInf, NInf}

\* those followed inside getState
DeValsAtom == {Fin(0), Fin(-6), NaN}

IsNaN(d) == d.kind = "nan"

IsFinite(d) == d.kind = "fin"

\* abs(dE) < Etol (false for NaN and the infinities)
BelowEtol(d) == d.kind = "fin" /\ Abs(d.v) < Etol

\* abs(dE / E) > max_dE_ratio (false for NaN; true for an infinite dE, and
\* for a finite nonzero dE at E = 0)
AboveRatio(d, E) ==
    \/ d.kind \in {"pinf", "ninf"}
    \/ d.kind = "fin" /\ Abs(d.v) * max_dE_ratio.den > max_dE_ratio.num * Abs(E)

\* (dE > 0 ? 1 : -1)
SignOf(d) == IF d.kind = "pinf" \/ (d.kind = "fin" /\ d.v > 0) THEN 1 ELSE -1

\* DampedStep whose limited correction is abs(E), without max_dE_ratio and
\* Edamp
DampedStep_ClampToE(E, d) ==
    IF AboveRatio(d, E)
    THEN E - SignOf(d) * Abs(E)
    ELSE E - RoundDiv(d.v * Edamp.num, Edamp.den)

\* lines 546-551 and 873-878: E - dE * Edamp after the maximum step ratio,
\* for a dE that is not NaN
DampedStep(E, d) ==
    IF AboveRatio(d, E)
    THEN E - RoundDiv(SignOf(d) * Abs(E) * max_dE_ratio.num * Edamp.num,
                      max_dE_ratio.den * Edamp.den)
    ELSE E - RoundDiv(d.v * Edamp.num, Edamp.den)

\* gridLimits, DiracState(rc, dx, i0, i1), k, E, getV and the integration
\* with the energy correction: the set of outcomes
RefineTrial(E, k, des) ==
    UNION {
        IF g.err # NoErr
        THEN {[err |-> g.err, set |-> FALSE, state |-> DefaultState, dE |-> NaN]}
        ELSE IF ~GridSizeOk(g)
        THEN {[err |-> LengthError, set |-> FALSE, state |-> DefaultState, dE |-> NaN]}
        ELSE {[err |-> NoErr, set |-> TRUE,
               state |-> [GridState(g.i0, g.i1) EXCEPT !.k = k, !.E = E,
                                                       !.wf = <<"integrate">>],
               dE |-> d] : d \in des}
        : g \in gridLimits(E, k) }

ZeroGridError == RuntimeError("Can not integrate state with zero-sized grid")

InvalidDEError == RuntimeError("Invalid dE value returned by integrateState")

\* convergeE(state, tp): entry, lines 510-519
ConvergeECall(st) ==
    /\ pc = "idle"
    /\ ce' = CeRec(st.E, st.k, 0, st, 0, Fin(0), FALSE, NoErr)
    /\ pc' = IF maxit > 0 THEN "ce_loop" ELSE "ce_done"
    /\ UNCHANGED <<atom, pv, el, states, gl, cn, cs, nodesOf>>

\* one iteration of the loop of convergeE, lines 519-552
CeIterate ==
    /\ pc = "ce_loop"
    /\ \E o \in RefineTrial(ce.E, ce.k, DeVals) :
         IF o.err # NoErr
         THEN /\ ce' = [ce EXCEPT !.err = o.err]
              /\ pc' = "ce_failed"
         ELSE IF o.state.lenP = 0
         THEN /\ ce' = [ce EXCEPT !.err = ZeroGridError, !.state = o.state]
              /\ pc' = "ce_failed"
         ELSE IF IsNaN(o.dE)
         THEN /\ ce' = [ce EXCEPT !.err = InvalidDEError, !.state = o.state,
                                  !.integ = @ + 1, !.lastdE = o.dE]
              /\ pc' = "ce_failed"
         ELSE IF BelowEtol(o.dE)
         THEN /\ \E v \in NodeVals, q \in NodeQGap :
                   ce' = [ce EXCEPT !.E = ce.E - o.dE.v,
                              !.state = [o.state EXCEPT !.E = ce.E - o.dE.v,
                                             !.wf = <<"integrate", "continuify">>,
                                             !.nodes = v, !.nodesQ = v + q],
                              !.integ = @ + 1, !.lastdE = o.dE, !.conv = TRUE]
              /\ pc' = "ce_done"
         ELSE /\ ce' = [ce EXCEPT !.E = DampedStep(ce.E, o.dE), !.state = o.state,
                                  !.integ = @ + 1, !.lastdE = o.dE, !.it = @ + 1]
              /\ pc' = IF ce.it + 1 < maxit THEN "ce_loop" ELSE "ce_done"
    /\ UNCHANGED <<atom, pv, el, states, gl, cn, cs, nodesOf>>

NanEnergy == RawLiteral("NAN ENERGY")

NodesWrong == RawLiteral("NODES WRONG")

MaxitReached == RawLiteral("MAXIT REACHED")

\* convergeState(E0, k): entry, lines 844-856; c holds the caller's locals
ConvergeStateEnter(c, E0, k) ==
    [c EXCEPT !.k = k, !.E = E0, !.it = 0, !.state = DefaultState,
              !.lastdE = Fin(0), !.conv = FALSE]

\* what is left of a getState call once it is over: its locals are gone
GsEnd(c) ==
    [CsIdle EXCEPT !.op = c.op, !.key = c.key, !.k = c.k, !.calls = c.calls,
                   !.integ = c.integ, !.hit = c.hit, !.result = c.result, !.err = c.err]

\* the locals after a throw of convergeState: inside getState the exception
\* leaves calcState and getState too
Thrown(c) == IF c.op = "getState" THEN GsEnd(c) ELSE c

\* where a throw of convergeState ends up
CsFailedPc == IF cs.op = "convergeState" THEN "cs_failed" ELSE "gs_failed"

\* one iteration of the loop of convergeState, lines 856-889
CsIterate ==
    /\ pc = "cs_loop"
    /\ \E o \in RefineTrial(cs.E, cs.k, IF cs.op = "getState" THEN DeValsAtom ELSE DeVals) :
         IF o.err # NoErr
         THEN /\ cs' = Thrown([cs EXCEPT !.err = o.err])
              /\ pc' = CsFailedPc
         ELSE IF BelowEtol(o.dE)
         THEN /\ cs' = [cs EXCEPT !.E = cs.E - o.dE.v, !.state = o.state,
                                  !.integ = @ + 1, !.lastdE = o.dE, !.conv = TRUE]
              /\ pc' = "cs_finish"
         ELSE IF IsNaN(o.dE)
         THEN /\ cs' = Thrown([cs EXCEPT !.err = NanEnergy, !.state = o.state,
                                         !.integ = @ + 1, !.lastdE = o.dE])
              /\ pc' = CsFailedPc
         ELSE /\ cs' = [cs EXCEPT !.E = DampedStep(cs.E, o.dE), !.state = o.state,
                                  !.integ = @ + 1, !.lastdE = o.dE, !.it = @ + 1]
              /\ pc' = IF cs.it + 1 < maxit THEN "cs_loop" ELSE "cs_finish"
    /\ UNCHANGED <<atom, pv, el, states, gl, cn, ce, nodesOf>>

\* CsFinish without the test of lines 909-913
CsFinish_NoNodeCheck ==
    /\ pc = "cs_finish"
    /\ \E Pn \in NodeVals, gap \in NodeQGap :
         LET st == [cs.state EXCEPT !.wf = <<"integrate", "continuify", "normalize">>,
                                    !.nodes = Pn, !.nodesQ = Pn + gap, !.init = TRUE]
         IN  /\ cs' = [cs EXCEPT !.state = st,
                                 !.result = IF cs.op = "convergeState" THEN st ELSE cs.result]
             /\ pc' = IF cs.op = "convergeState" THEN "cs_done" ELSE "calc_check"
    /\ UNCHANGED <<atom, pv, el, states, gl, cn, ce, nodesOf>>

\* the end of convergeState, lines 891-919: continuity, norm, node counts
\* and the relation between them.  The returned object is the local
\* (the copy of the return statement is elided).
CsFinish ==
    /\ pc = "cs_finish"
    /\ \E Pn \in NodeVals, gap \in NodeQGap :
         LET Qn == Pn + gap
             want == IF InsideNucleus(cs.state) THEN 1 ELSE 0
             st == [cs.state EXCEPT !.wf = <<"integrate", "continuify", "normalize">>]
         IN  IF Qn - Pn # want
             THEN /\ cs' = Thrown([cs EXCEPT !.err = NodesWrong, !.state = st])
                  /\ pc' = CsFailedPc
             ELSE /\ cs' = [cs EXCEPT !.state = [st EXCEPT !.nodes = Pn, !.nodesQ = Qn,
                                                           !.init = TRUE],
                                      !.result = IF cs.op = "convergeState"
                                                 THEN [st EXCEPT !.nodes = Pn, !.nodesQ = Qn,
                                                                 !.init = TRUE]
                                                 ELSE cs.result]
                  /\ pc' = IF cs.op = "convergeState" THEN "cs_done" ELSE "calc_check"
    /\ UNCHANGED <<atom, pv, el, states, gl, cn, ce, nodesOf>>

\* a direct call of convergeState(E0, k), as in the tests
ConvergeStateCall(E0, k) ==
    /\ pc = "idle"
    /\ cs' = ConvergeStateEnter([CsIdle EXCEPT !.op = "convergeState", !.E0 = E0], E0, k)
    /\ pc' = IF maxit > 0 THEN "cs_loop" ELSE "cs_finish"
    /\ UNCHANGED <<atom, pv, el, states, gl, cn, ce, nodesOf>>

(***************************************************************************)
(* Specification of the energy refiners on their own                       *)
(***************************************************************************)
RefineEnergies == {-restE \div 2, 0, restE \div 2, restE - 1, restE + 1}

InitRefine ==
    /\ Z = 1
    /\ R \in {PointLike, -1, -3}
    /\ in_eps = 1
    /\ out_eps = 1
    /\ maxit = MaxitRefine
    /\ states = EmptyCache
    /\ pc = "idle"
    /\ gl = GlIdle
    /\ cn = CnIdle
    /\ ce = CeIdle
    /\ cs = CsIdle
    /\ nodesOf = <<>>
    /\ el = ElIdle
    /\ pv = PvIdle

RefineECall ==
    \E E \in RefineEnergies :
        ConvergeECall([DefaultState EXCEPT !.k = -1, !.E = E])

RefineStateCall ==
    \E E \in RefineEnergies : ConvergeStateCall(E, -1)

NextRefine == RefineECall \/ CeIterate \/ RefineStateCall \/ CsIterate \/ CsFinish

SpecRefine == InitRefine /\ [][NextRefine]_vars

(***************************************************************************)
(* The state cache: calcState and getState                                 *)
(***************************************************************************)
\* DiracAtom::Esearch, as a fraction
Esearch == [num |-> 3, den |-> 2]

\* V.V(0) of a finite nucleus, in energy steps
VZero == -(restE \div 4) - 1

\* the margin 0.1 of line 959, in energy steps
FloorMargin == 1

\* hydrogenicDiracEnergy(Z, mu, n, k) of hydrogenic.hpp: a bound energy
\* below restE that rises with n
hydrogenicDiracEnergy(n, k) == restE - Max(1, restE \div (2 * n * n))

\* DiracState::DiracState(const DiracState &s): init is set, and nodesQ and
\* V are not copied
CopyState(st) ==
    [st EXCEPT !.init = TRUE, !.nodesQ = Garbage, !.lenV = 0]

\* qnumNodes2Principal(nodes, l, n) applied by DiracState::getn
getn(st, l) == st.nodes + l + 1

\* k = ((s && l > 0) ? l : -l - 1), line 937
DiracK(l, s) == IF s /\ l > 0 THEN l ELSE -l - 1

Present(key) == key \in DOMAIN states

\* Store emptying the map before the assignment
Store_Replacing(cache, key, st) ==
    [x \in {key} |-> st]

\* states[key] = st
Store(cache, key, st) ==
    [x \in (DOMAIN cache) \cup {key} |-> IF x = key THEN st ELSE cache[x]]

\* states[key] as an rvalue: std::map::operator[] inserts a default state
Touch(cache, key) ==
    IF key \in DOMAIN cache THEN cache ELSE Store(cache, key, DefaultState)

\* lines 950-962: the starting energy of calcState
StartEnergy(n, k) ==
    LET E0 == hydrogenicDiracEnergy(n, k)
    IN  IF R # PointLike /\ E0 - restE < VZero
        THEN VZero + restE + FloorMargin
        ELSE E0

AtomIdle == pc \in {"idle", "gs_done", "gs_failed", "cs_done", "cs_failed"}

\* the numbers of earlier getState calls after which one more is followed
CallsBefore == {0, 1}

\* getState(n, l, s) with a cached, initialized entry: calcState returns at
\* line 947 and lines 1020-1028 copy the entry
GetStateHit(n, l, s) ==
    LET key == <<n, l, s>>
    IN  /\ cs' = [CsIdle EXCEPT !.op = "getState", !.key = key, !.k = DiracK(l, s),
                                !.calls = cs.calls + 1, !.hit = TRUE,
                                !.result = CopyState(CopyState(states[key]))]
        /\ pc' = "gs_done"
        /\ UNCHANGED states

\* getState(n, l, s) without such an entry: lines 937-964
GetStateMiss(n, l, s) ==
    LET key == <<n, l, s>>
        k   == DiracK(l, s)
        E0  == StartEnergy(n, k)
        c   == [CsIdle EXCEPT !.op = "getState", !.key = key, !.E0 = E0,
                              !.calls = cs.calls + 1]
    IN  /\ states' = Touch(states, key)
        /\ cs' = ConvergeStateEnter(c, E0, k)
        /\ pc' = IF maxit > 0 THEN "cs_loop" ELSE "calc_store"

\* getState recomputing the state even when it is cached (force = true)
GetStateCall_Forced(n, l, s) ==
    /\ AtomIdle
    /\ cs.calls \in CallsBefore
    /\ GetStateMiss(n, l, s)
    /\ UNCHANGED <<atom, pv, el, gl, cn, ce, nodesOf>>

\* getState(n, l, s) with force = false: lines 1019 and 935-948
GetStateCall(n, l, s) ==
    /\ AtomIdle
    /\ cs.calls \in CallsBefore
    /\ IF Present(<<n, l, s>>) /\ states[<<n, l, s>>].init
       THEN GetStateHit(n, l, s)
       ELSE GetStateMiss(n, l, s)
    /\ UNCHANGED <<atom, pv, el, gl, cn, ce, nodesOf>>

\* E0 = dnode > 0 ? E0 / Esearch : E0 * Esearch, line 976; dnode is never
\* assigned, so either branch may be taken
Rescaled(E0) ==
    {RoundDiv(E0 * Esearch.den, Esearch.num), RoundDiv(E0 * Esearch.num, Esearch.den)}

\* CalcCheck with a retry loop of maxit + 1 rounds
CalcCheck_OneMoreRetry ==
    /\ pc = "calc_check"
    /\ LET n == cs.key[1]
           l == cs.key[2]
           s == cs.key[3]
       IN  IF getn(cs.state, l) = n
           THEN /\ pc' = "calc_store"
                /\ UNCHANGED <<cs, states>>
           ELSE /\ states' = Store(states, <<getn(cs.state, l), l, s>>, cs.state)
                /\ \E E0 \in Rescaled(cs.E0) :
                     IF cs.cit + 1 <= maxit
                     THEN /\ cs' = [ConvergeStateEnter(cs, E0, cs.k)
                                      EXCEPT !.E0 = E0, !.cit = cs.cit + 1,
                                             !.state = cs.state]
                          /\ pc' = "cs_loop"
                     ELSE /\ cs' = [cs EXCEPT !.E0 = E0, !.cit = cs.cit + 1]
                          /\ pc' = "calc_store"
    /\ UNCHANGED <<atom, pv, el, gl, cn, ce, nodesOf>>

\* lines 966-978: the state convergeState returned is compared with n
CalcCheck ==
    /\ pc = "calc_check"
    /\ LET n == cs.key[1]
           l == cs.key[2]
           s == cs.key[3]
       IN  IF getn(cs.state, l) = n
           THEN /\ pc' = "calc_store"
                /\ UNCHANGED <<cs, states>>
           ELSE /\ states' = Store(states, <<getn(cs.state, l), l, s>>, cs.state)
                /\ \E E0 \in Rescaled(cs.E0) :
                     IF cs.cit + 1 < maxit
                     THEN /\ cs' = [ConvergeStateEnter(cs, E0, cs.k)
                                      EXCEPT !.E0 = E0, !.cit = cs.cit + 1,
                                             !.state = cs.state]
                          /\ pc' = "cs_loop"
                     ELSE /\ cs' = [cs EXCEPT !.E0 = E0, !.cit = cs.cit + 1]
                          /\ pc' = "calc_store"
    /\ UNCHANGED <<atom, pv, el, gl, cn, ce, nodesOf>>

\* line 980: states[make_tuple(n, l, s)] = state
CalcStore ==
    /\ pc = "calc_store"
    /\ states' = Store(states, cs.key, cs.state)
    /\ pc' = "gs_copy"
    /\ UNCHANGED <<atom, pv, el, gl, cn, ce, cs, nodesOf>>

\* lines 1020-1028: the copy of the entry, the test of init and the return
GsReturn ==
    /\ pc = "gs_copy"
    /\ LET st == CopyState(states[cs.key])
       IN  IF ~st.init
           THEN /\ cs' = GsEnd([cs EXCEPT !.err = MaxitReached])
                /\ pc' = "gs_failed"
           ELSE /\ cs' = GsEnd([cs EXCEPT !.result = CopyState(st)])
                /\ pc' = "gs_done"
    /\ UNCHANGED <<atom, pv, el, states, gl, cn, ce, nodesOf>>

\* the exception types derived from std::exception among those thrown
StdExceptions == {"runtime_error", "length_error", "invalid_argument"}

\* the handlers around the two getState calls of the driver:
\* catch (AtomErrorCode aerr) and catch (const exception &e)
DriverCatches(e) == e.type = "AtomErrorCode" \/ e.type \in StdExceptions

(***************************************************************************)
(* Specification of the atom: getState calls and direct convergeState      *)
(***************************************************************************)
GsKeys == {<<2, 0, FALSE>>, <<2, 1, TRUE>>}

InitAtom ==
    /\ Z = 1
    /\ R \in {PointLike, -1, -3}
    /\ in_eps = 1
    /\ out_eps = 1
    /\ maxit = MaxitAtom
    /\ states = EmptyCache
    /\ pc = "idle"
    /\ gl = GlIdle
    /\ cn = CnIdle
    /\ ce = CeIdle
    /\ cs = CsIdle
    /\ nodesOf = <<>>
    /\ el = ElIdle
    /\ pv = PvIdle

AtomGetState == \E key \in GsKeys : GetStateCall(key[1], key[2], key[3])

NextAtom == AtomGetState \/ CsIterate \/ CsFinish \/ CalcCheck \/ CalcStore \/ GsReturn

SpecAtom == InitAtom /\ [][NextAtom]_vars

\* one getState call on the atom as constructed
FirstGetState == cs.calls = 0 /\ AtomGetState

NextAtomFair ==
    FirstGetState \/ CsIterate \/ CsFinish \/ CalcCheck \/ CalcStore \/ GsReturn

\* the steps of one getState call follow one another in one thread, and each
\* integration is taken to terminate: a step that can be taken is taken
SpecAtomFair ==
    /\ InitAtom /\ [][NextAtomFair]_vars
    /\ WF_vars(CsIterate) /\ WF_vars(CsFinish) /\ WF_vars(CalcCheck)
    /\ WF_vars(CalcStore) /\ WF_vars(GsReturn)

(***************************************************************************)
(* energyLimits                                                            *)
(***************************************************************************)
\* qnumDirac2Schro(k, l, s): the inverse of k = ((s && l > 0) ? l : -l - 1)
qnumDirac2Schro(k) ==
    IF k < 0 THEN [l |-> -k - 1, s |-> FALSE] ELSE [l |-> k, s |-> TRUE]

\* qnumNodes2Principal(nodes, l, n)
qnumNodes2Principal(nodes, l) == nodes + l + 1

SetMax(S) == CHOOSE x \in S : \A y \in S : y <= x

SetMin(S) == CHOOSE x \in S : \A y \in S : x <= y

\* max(V.V(0) + restE, -restE), line 376; V.V(0) of a point nucleus is
\* -Z / 0 = -infinity
EnergyFloor == IF R = PointLike THEN -restE ELSE Max(VZero + restE, -restE)

\* the principal numbers the keys of cache hold
Principals(cache) == {key[1] : key \in DOMAIN cache}

\* the energies of the entries of cache with orbital and spin numbers
\* (l, s) whose principal number is in ns
EntryEnergies(cache, l, s, ns) ==
    {cache[key].E : key \in {x \in DOMAIN cache : x[2] = l /\ x[3] = s /\ x[1] \in ns}}

\* energyLimits with each bound taken from the entries alone when there are
\* any, without max(minE, .) and min(maxE, .)
EnergyLimitsOf_NoClamp(cache, nodes, k) ==
    LET q == qnumDirac2Schro(k)
        n == qnumNodes2Principal(nodes, q.l)
        Low == {itn \in Principals(cache) : itn <= n}
        High == {itn \in Principals(cache) : ~(itn <= n)}
        low == EntryEnergies(cache, q.l, q.s, Low)
        high == EntryEnergies(cache, q.l, q.s, High)
    IN  [minE |-> IF low = {} THEN EnergyFloor ELSE SetMax(low),
         maxE |-> IF high = {} THEN restE ELSE SetMin(high)]

\* DiracAtom::energyLimits(nodes, k), lines 365-402, on the cache given
EnergyLimitsOf(cache, nodes, k) ==
    LET q == qnumDirac2Schro(k)
        n == qnumNodes2Principal(nodes, q.l)
        Low == {itn \in Principals(cache) : itn <= n}
        High == {itn \in Principals(cache) : ~(itn <= n)}
    IN  [minE |-> SetMax(EntryEnergies(cache, q.l, q.s, Low) \cup {EnergyFloor}),
         maxE |-> SetMin(EntryEnergies(cache, q.l, q.s, High) \cup {restE})]

energyLimits(nodes, k) == EnergyLimitsOf(states, nodes, k)

(***************************************************************************)
(* Specification of energyLimits on the caches calcState can leave         *)
(***************************************************************************)
LimKeys == {<<1, 0, FALSE>>, <<2, 0, FALSE>>, <<3, 0, FALSE>>, <<2, 1, TRUE>>}

LimEnergies == {-2, 3, 6, 7}

LimNodes == {0, 1, 2}

LimKs == {-1, 1}

\* the entry line 980 stores under key for a state converged at energy E
ConvergedEntry(key, E) ==
    [DefaultState EXCEPT !.E = E, !.k = DiracK(key[2], key[3]),
                         !.nodes = key[1] - key[2] - 1,
                         !.nodesQ = key[1] - key[2] - 1, !.init = TRUE,
                         !.wf = <<"integrate", "continuify", "normalize">>]

\* what a key can hold: a converged state, or the default state that
\* states[key] of line 945 leaves behind when convergeState throws
EntriesOf(key) == {DefaultState} \cup {ConvergedEntry(key, E) : E \in LimEnergies}

\* the caches over a set of keys
Caches ==
    UNION { {c \in [D -> UNION {EntriesOf(key) : key \in D}] :
                \A key \in D : c[key] \in EntriesOf(key)}
            : D \in SUBSET LimKeys }

InitLimits ==
    /\ Z = 1
    /\ R \in {PointLike, -1}
    /\ in_eps = 1
    /\ out_eps = 1
    /\ maxit = MaxitAtom
    /\ states \in Caches
    /\ pc = "idle"
    /\ gl = GlIdle
    /\ cn = CnIdle
    /\ ce = CeIdle
    /\ cs = CsIdle
    /\ nodesOf = <<>>
    /\ el = ElIdle
    /\ pv = PvIdle

EnergyLimitsCall ==
    \E nodes \in LimNodes, k \in LimKs :
        LET lim == energyLimits(nodes, k)
        IN  /\ el' = [nodes |-> nodes, k |-> k, minE |-> lim.minE, maxE |-> lim.maxE]
            /\ pc' = "energyLimits"
            /\ UNCHANGED <<atom, pv, states, gl, cn, ce, cs, nodesOf>>

NextLimits == EnergyLimitsCall

SpecLimits == InitLimits /\ [][NextLimits]_vars

(***************************************************************************)
(* The potentials: CoulombSpherePotential::V and UehlingSpherePotential::V *)
(***************************************************************************)
InvalidArgument(m) == [type |-> "invalid_argument", what |-> m]

\* a returned value, named by the expression that computes it
PotVal(v) == [err |-> NoErr, val |-> v]

PotErr(e) == [err |-> e, val |-> "none"]

\* CoulombSpherePotential::V(r) for nuclear radius Rn
CoulombV(r, Rn) ==
    IF r < 0 THEN PotErr(InvalidArgument("Negative radius not allowed for CoulombPotential"))
    ELSE IF r < Rn THEN PotVal("Z * pow(r, 2) / (2 * R3) + VR")
    ELSE PotVal("-Z / r")

\* UehlingSpherePotential::V(r): lo stands for
\* exp_cutoff_low * 0.5 * du * alpha and hi for exp_cutoff_high * 0.5 * alpha
UehlingV(r, lo, hi) ==
    IF r > hi THEN PotVal("0.0")
    ELSE IF r < lo THEN PotVal("K * uint0")
    ELSE PotVal("K / r * ans")

(***************************************************************************)
(* Specification of the potentials on their own                            *)
(***************************************************************************)
RadiusVals == {-5, -2, -1, 0, 1, 2, 3, 5, 6}

NuclearRadii == {-1, 2}

CutLowVals == {-1, 0, 1}

CutHighVals == {3, 4}

InitPotential ==
    /\ Z \in ZVals
    /\ R = PointLike
    /\ in_eps = 1
    /\ out_eps = 1
    /\ maxit = MaxitAtom
    /\ states = EmptyCache
    /\ pc = "idle"
    /\ gl = GlIdle
    /\ cn = CnIdle
    /\ ce = CeIdle
    /\ cs = CsIdle
    /\ nodesOf = <<>>
    /\ el = ElIdle
    /\ pv = PvIdle

CoulombVCall ==
    \E r \in RadiusVals, Rn \in NuclearRadii :
        /\ pv' = [pot |-> "Coulomb", R |-> Rn, lo |-> 0, hi |-> 0, r |-> r,
                  out |-> CoulombV(r, Rn)]
        /\ pc' = "V"
        /\ UNCHANGED <<atom, el, states, gl, cn, ce, cs, nodesOf>>

UehlingVCall ==
    \E r \in RadiusVals, Rn \in NuclearRadii, lo \in CutLowVals, hi \in CutHighVals :
        /\ pv' = [pot |-> "Uehling", R |-> Rn, lo |-> lo, hi |-> hi, r |-> r,
                  out |-> UehlingV(r, lo, hi)]
        /\ pc' = "V"
        /\ UNCHANGED <<atom, el, states, gl, cn, ce, cs, nodesOf>>

NextPotential == CoulombVCall \/ UehlingVCall

SpecPotential == InitPotential /\ [][NextPotential]_vars

(***************************************************************************)
(* Claims about gridLimits                                                 *)
(***************************************************************************)
GridReturned == pc = "gridLimits"

UnboundRaised == gl.out.err = AtomErrorCode("UNBOUND_STATE")

SmallGammaRaised == gl.out.err = AtomErrorCode("SMALL_GAMMA")

\* C9: gridLimits(E, k) fails with UNBOUND_STATE exactly when E lies outside
\* the open interval (-restE, restE), the two ends E = restE and E = -restE
\* included.
C9_UnboundOutsideOpenInterval ==
    GridReturned => (UnboundRaised <=> (gl.E <= -restE \/ gl.E >= restE))

\* C10 as stated: gridLimits(E, k) fails with SMALL_GAMMA exactly when
\* k^2 < (Z alpha)^2, whatever the energy.
C10_SmallGammaWhateverE ==
    GridReturned => (SmallGammaRaised <=> GammaTerm(gl.k, Z) < 0)

\* C10 amended: gridLimits(E, k) fails with SMALL_GAMMA exactly when
\* k^2 < (Z alpha)^2 and the energy passes the test on K (|E| <= restE);
\* for k^2 < (Z alpha)^2 and |E| > restE it fails with UNBOUND_STATE.
C10_SmallGammaUnlessUnbound ==
    GridReturned =>
        /\ SmallGammaRaised <=> (GammaTerm(gl.k, Z) < 0 /\ Abs(gl.E) <= restE)
        /\ (GammaTerm(gl.k, Z) < 0 /\ Abs(gl.E) > restE) => UnboundRaised

\* C10 witness: a call with k^2 < (Z alpha)^2 at a bound energy has failed
\* with SMALL_GAMMA.
C10_Witness ==
    GridReturned /\ SmallGammaRaised /\ GammaTerm(gl.k, Z) < 0 /\ Abs(gl.E) < restE

\* in_eps and out_eps both lie strictly between 0 and 1
EpsInsideOpenInterval ==
    0 < in_eps /\ in_eps < EpsOne /\ 0 < out_eps /\ out_eps < EpsOne

\* C11: gridLimits(E, k) returns grid limits only when in_eps and out_eps
\* both lie in the open interval (0, 1); with either of them at 0, at 1 or
\* outside, a call that passes the tests on K and gamma fails with a
\* runtime error.
C11_EpsOutsideOpenIntervalFails ==
    GridReturned =>
        /\ gl.out.err = NoErr => EpsInsideOpenInterval
        /\ (~EpsInsideOpenInterval /\ KTerm(gl.E) >= 0 /\ GammaTerm(gl.k, Z) >= 0)
              => gl.out.err.type = "runtime_error"

\* the grid from index i0 to index i1 has the turning point position xtp
\* (in half steps of the grid) inside it
Brackets(i0, i1, xtp) == 2 * i0 <= xtp /\ xtp <= 2 * i1

\* C12: whenever gridLimits(E, k) returns a pair (i_in, i_out), i_in <= i_out
\* and the grid from i_in to i_out has the Coulomb turning radius inside it;
\* the state initState builds starts below and ends above that radius.
C12_GridBracketsTurningPoint ==
    /\ (GridReturned /\ gl.out.err = NoErr) =>
          /\ gl.out.i0 <= gl.out.i1
          /\ \A xtp \in XTp : Brackets(gl.out.i0, gl.out.i1, xtp)
    /\ (pc = "initState" /\ gl.out.err = NoErr) =>
          /\ gl.state.lenP >= 1
          /\ \A xtp \in XTp : Brackets(gl.state.i0, gl.state.i1, xtp)

(***************************************************************************)
(* Claims about energyLimits                                               *)
(***************************************************************************)
ElReturned == pc = "energyLimits"

\* C13: energyLimits(nodes, k), with n the principal number of (nodes, k),
\* returns as minE the largest of the floor and the energies of the entries
\* with the same (l, s) and principal number strictly lower than n, and as
\* maxE the smallest of restE and the energies of the entries with the same
\* (l, s) and principal number strictly higher than n; an entry with
\* principal number n, or with another (l, s), changes neither bound.
C13_BracketFromStrictlyLowerAndHigher ==
    ElReturned =>
        LET q == qnumDirac2Schro(el.k)
            n == qnumNodes2Principal(el.nodes, q.l)
            Lower == {itn \in Principals(states) : itn < n}
            Higher == {itn \in Principals(states) : itn > n}
        IN  /\ el.minE = SetMax(EntryEnergies(states, q.l, q.s, Lower) \cup {EnergyFloor})
            /\ el.maxE = SetMin(EntryEnergies(states, q.l, q.s, Higher) \cup {restE})

\* C14: energyLimits returns minE >= max(V(0) + restE, -restE) and
\* maxE <= restE whatever the cache holds, and leaves the cache as it is;
\* on an empty cache it returns exactly the floor and restE, and the floor
\* of a point nucleus is -restE.
C14_LimitsWithinAbsoluteBounds ==
    [][pc' = "energyLimits" =>
          /\ states' = states
          /\ el'.minE >= EnergyFloor
          /\ el'.maxE <= restE
          /\ states = EmptyCache =>
                /\ el'.minE = EnergyFloor
                /\ el'.maxE = restE
                /\ R = PointLike => el'.minE = -restE]_vars

\* C14 witness: energyLimits has returned a bracket that cached states
\* tightened at both ends, for a finite nucleus.
C14_Witness ==
    /\ ElReturned
    /\ R # PointLike
    /\ el.minE > EnergyFloor
    /\ el.maxE < restE

\* the entries of cache whose init flag is set
InitializedOnly(cache) ==
    [key \in {x \in DOMAIN cache : cache[x].init} |-> cache[key]]

\* C15: entries whose init flag is false do not count: energyLimits returns
\* the bracket it would return with those entries removed from the cache.
C15_UninitializedEntriesIgnored ==
    ElReturned =>
        [minE |-> el.minE, maxE |-> el.maxE]
            = EnergyLimitsOf(InitializedOnly(states), el.nodes, el.k)

(***************************************************************************)
(* Claims about the potentials                                             *)
(***************************************************************************)
\* C16: the Uehling potential evaluated at a radius r < 0 fails with an
\* error and returns no value, as the Coulomb potential does.
C16_NegativeRadiusFails ==
    (pc = "V" /\ pv.r < 0) => (pv.out.err # NoErr /\ pv.out.val = "none")

(***************************************************************************)
(* Claims about convergeNodes                                              *)
(***************************************************************************)
CnReturned == pc = "cn_done"

CnThrew == pc = "cn_failed"

\* C6 as stated: whenever convergeNodes returns normally, state.nodes is the
\* target, state.E is the trial energy integrated last (El or Er), and that
\* energy lies between the minE and maxE passed in.
C6_ReturnsTargetInsideBracket ==
    CnReturned =>
        /\ cn.state.nodes = cn.targ
        /\ cn.state.E = cn.last
        /\ cn.state.E \in {cn.El, cn.Er}
        /\ cn.minE0 <= cn.state.E /\ cn.state.E <= cn.maxE0

\* C6 amended: whenever convergeNodes returns normally, state.nodes is the
\* target and state.E is the trial energy integrated last (El or Er); if it
\* was entered with minE <= maxE, that energy lies between the minE and maxE
\* passed in.
C6_ReturnsTargetInsideOrderedBracket ==
    CnReturned =>
        /\ cn.state.nodes = cn.targ
        /\ cn.state.E = cn.last
        /\ cn.state.E \in {cn.El, cn.Er}
        /\ cn.minE0 <= cn.maxE0 => (cn.minE0 <= cn.state.E /\ cn.state.E <= cn.maxE0)

\* C6 witness: convergeNodes has returned from a bracket with minE < maxE
\* after narrowing the bracket at least twice.
C6_Witness ==
    CnReturned /\ cn.minE0 < cn.maxE0 /\ cn.it >= 2 /\ cn.state.nodes = cn.targ

\* C7: convergeNodes runs at most maxit iterations with at most two
\* integrations each; when the budget is used up it throws; it never returns
\* normally with state.nodes different from the target.
C7_BoundedAndNeverOffTarget ==
    /\ cn.it <= maxit
    /\ cn.integ <= 2 * maxit
    /\ cn.integ <= 2 * (cn.it + 1)
    /\ cn.it = maxit => (CnThrew /\ cn.err = NodesMaxitError)
    /\ CnThrew => cn.err # NoErr
    /\ CnReturned => (cn.state.nodes = cn.targ /\ cn.err = NoErr)

\* C7 witness: the budget was used up, with more integrations than
\* iterations, and convergeNodes threw the maximum iterations error.
C7_Witness ==
    CnThrew /\ cn.err = NodesMaxitError /\ cn.it = maxit /\ cn.integ > maxit

\* C8: the nodal theorem error is thrown only when the count used for the
\* lower trial exceeds the target and the count used for the upper trial is
\* below it, and each count used is that of the wavefunction integrated at
\* the trial's current energy.
C8_NodalErrorOnlyOnCurrentCounts ==
    (CnThrew /\ cn.err = NodalError) =>
        /\ cn.nl > cn.targ /\ cn.nr < cn.targ
        /\ cn.nlAt = cn.El /\ cn.nrAt = cn.Er

\* convergeNodes is inside its loop, entered with an ordered bracket
CnInLoopOrdered ==
    pc \in {"cn_left", "cn_right", "cn_classify"} /\ cn.minE0 <= cn.maxE0

\* C22: entered with minE <= maxE, convergeNodes keeps, in every iteration,
\* initial minE <= minE <= El <= Er <= maxE <= initial maxE; the first two
\* trials are the tertiles of the bracket.
C22_TrialsOrderedInsideBracket ==
    CnInLoopOrdered =>
        /\ cn.minE0 <= cn.minE /\ cn.minE <= cn.El /\ cn.El <= cn.Er
        /\ cn.Er <= cn.maxE /\ cn.maxE <= cn.maxE0
        /\ cn.it = 0 =>
              /\ cn.El = cn.minE0 + RoundDiv(cn.maxE0 - cn.minE0, 3)
              /\ cn.Er = cn.maxE0 - RoundDiv(cn.maxE0 - cn.minE0, 3)

\* C22 witness: after two updates the bracket has been narrowed at both ends
\* and the two trials differ.
C22_Witness ==
    /\ pc = "cn_left" /\ cn.it >= 2
    /\ cn.minE0 < cn.minE /\ cn.El < cn.Er /\ cn.maxE < cn.maxE0

\* the counts found so far do not decrease with the energy
CountsMonotone ==
    \A x \in DOMAIN nodesOf, y \in DOMAIN nodesOf : x <= y => nodesOf[x] <= nodesOf[y]

\* the counts found so far allow energy e to have the target count in a
\* count that does not decrease with the energy
MayHoldTarget(e) ==
    \A x \in DOMAIN nodesOf :
        /\ x = e => nodesOf[x] = cn.targ
        /\ x < e => nodesOf[x] <= cn.targ
        /\ x > e => nodesOf[x] >= cn.targ

\* C23: with a node count that does not decrease with the energy and an
\* energy of the target count inside the ordered initial bracket, every
\* energy of the target count stays inside [minE, maxE] through all the
\* updates, and the nodal theorem error is never raised.
C23_MonotoneCountsKeepTargetBracketed ==
    \A e \in cn.minE0 .. cn.maxE0 :
        (pc \in {"cn_left", "cn_right", "cn_classify", "cn_failed"}
            /\ CountsMonotone /\ MayHoldTarget(e)) =>
           /\ cn.minE <= e /\ e <= cn.maxE
           /\ cn.err # NodalError

\* C23 witness: three energies integrated with counts that do not decrease,
\* the bracket narrowed from below, and an energy inside it that may still
\* hold the target count.
C23_Witness ==
    /\ pc = "cn_left" /\ cn.it >= 2 /\ cn.minE0 < cn.minE
    /\ CountsMonotone /\ Cardinality(DOMAIN nodesOf) >= 3
    /\ \E e \in cn.minE .. cn.maxE : MayHoldTarget(e)

\* the step of the lower (upper) trial integrated, or tried to and failed
LeftTried == pc = "cn_left" /\ (cn'.integ = cn.integ + 1 \/ pc' = "cn_failed")

RightTried == pc = "cn_right" /\ (cn'.integ = cn.integ + 1 \/ pc' = "cn_failed")

\* C18: in every iteration of convergeNodes after the first, the lower trial
\* is integrated exactly when El differs from the El of the iteration
\* before, and the upper trial exactly when Er differs from the Er of the
\* iteration before.
C18_ReintegratedIffEnergyChanged ==
    [][/\ (pc = "cn_left" /\ pc' # "cn_left" /\ cn.it > 0)
             => (LeftTried <=> cn.El # cn.prevEl)
       /\ (pc = "cn_right" /\ pc' # "cn_right" /\ cn.it > 0)
             => (RightTried <=> cn.Er # cn.prevEr)]_vars

(***************************************************************************)
(* Claims about the energy refiners                                        *)
(***************************************************************************)
\* C4: when the refinement loop has run its maxit iterations without ever
\* seeing |dE| < Etol, convergeE and convergeState fail: neither returns
\* normally, and no state is marked initialized.
C4_BudgetExhaustedFails ==
    /\ (ce.it = maxit /\ ~ce.conv) => pc # "ce_done"
    /\ (cs.it = maxit /\ ~cs.conv) => (pc # "cs_done" /\ ~cs.state.init)

\* C5: an energy correction that is NaN, +inf or -inf makes the refiner
\* fail in that iteration: the loop never goes on, and never returns, after
\* a dE that is not finite.
C5_NonFiniteDEFails ==
    /\ pc \in {"ce_loop", "ce_done"} => IsFinite(ce.lastdE)
    /\ pc \in {"cs_loop", "cs_finish", "cs_done"} => IsFinite(cs.lastdE)

\* C20: every state convergeE or convergeState returns as converged has
\* been integrated, then made continuous at the turning point, then
\* normalized, in that order.
C20_ConvergedContinuousThenNormalized ==
    /\ (pc = "ce_done" /\ ce.conv) =>
          ce.state.wf = <<"integrate", "continuify", "normalize">>
    /\ (pc = "cs_done" /\ cs.conv) =>
          cs.state.wf = <<"integrate", "continuify", "normalize">>

\* the step from E to E2 after the correction d: no longer than
\* Edamp * max_dE_ratio * abs(E) (up to the rounding of E2 to the energy
\* step), against the sign of d, Edamp * d when d is within the ratio, and
\* leaving the sign of the energy as it is
StepBounded(E, E2, d) ==
    /\ 2 * Edamp.den * max_dE_ratio.den * Abs(E2 - E)
          <= 2 * Edamp.num * max_dE_ratio.num * Abs(E) + Edamp.den * max_dE_ratio.den
    /\ (E2 - E) * SignOf(d) <= 0
    /\ ~AboveRatio(d, E) => E2 = E - RoundDiv(d.v * Edamp.num, Edamp.den)
    /\ E > 0 => E2 > 0
    /\ E < 0 => E2 < 0
    /\ E = 0 => E2 = 0

\* C27: every iteration of convergeE and of convergeState that does not end
\* the refinement moves the energy by at most Edamp * max_dE_ratio * abs(E),
\* against the sign of dE, by Edamp * dE when abs(dE / E) <= max_dE_ratio,
\* and never across zero.
C27_DampedStepBounded ==
    [][/\ (pc = "ce_loop" /\ ce'.it = ce.it + 1) =>
             StepBounded(ce.E, ce'.E, ce'.lastdE)
       /\ (pc = "cs_loop" /\ cs'.it = cs.it + 1) =>
             StepBounded(cs.E, cs'.E, cs'.lastdE)]_vars

\* C27 witness: convergeE has taken a step of Edamp * dE with dE within the
\* ratio, and goes on.
C27_Witness ==
    /\ pc = "ce_loop" /\ ce.it >= 1
    /\ IsFinite(ce.lastdE) /\ ~AboveRatio(ce.lastdE, ce.state.E)
    /\ ce.E # ce.state.E

(***************************************************************************)
(* Claims about the state cache                                            *)
(***************************************************************************)
TargetNodes(key) == key[1] - key[2] - 1

\* C1: every initialized cache entry under (n, l, s), and every state
\* getState(n, l, s) returns, has nodes = n - l - 1, also when the retry
\* loop of calcState has used up its budget.
C1_CachedAndReturnedOnTarget ==
    /\ \A key \in DOMAIN states :
         states[key].init => states[key].nodes = TargetNodes(key)
    /\ pc = "gs_done" => cs.result.nodes = TargetNodes(cs.key)

\* a step that is a call of getState
GetStateStep == AtomIdle /\ cs'.op = "getState" /\ cs'.calls = cs.calls + 1

\* C2: a getState(n, l, s) that finds an initialized entry under (n, l, s)
\* returns that entry's energy and wavefunction, integrates nothing and
\* leaves the cache as it is; a second call for the same key returns a
\* state equal to the first.
C2_CachedEntryReturnedUntouched ==
    [][(GetStateStep /\ Present(cs'.key) /\ states[cs'.key].init) =>
          /\ pc' = "gs_done"
          /\ cs'.err = NoErr
          /\ cs'.integ = 0
          /\ states' = states
          /\ cs'.result.E = states[cs'.key].E
          /\ cs'.result.wf = states[cs'.key].wf
          /\ cs'.result.lenP = states[cs'.key].lenP
          /\ cs'.result.nodes = states[cs'.key].nodes
          /\ (pc = "gs_done" /\ cs.key = cs'.key) => cs'.result = cs.result]_vars

\* C2 witness: a second getState call has been answered from the cache.
C2_Witness ==
    pc = "gs_done" /\ cs.hit /\ cs.calls = 2 /\ cs.integ = 0 /\ cs.result.init

\* nodesQ - nodes is 1 inside a finite nucleus and 0 otherwise
NodeRelation(st) == st.nodesQ - st.nodes = (IF InsideNucleus(st) THEN 1 ELSE 0)

\* C3: the state convergeState returns, and every initialized entry of the
\* cache, has nodesQ - nodes = 1 when the nucleus is finite and R > grid[0],
\* and nodesQ - nodes = 0 otherwise; a state that breaks the relation makes
\* convergeState throw.
C3_NodeRelationOfConvergedStates ==
    /\ pc = "calc_check" => (cs.state.init /\ NodeRelation(cs.state))
    /\ \A key \in DOMAIN states : states[key].init => NodeRelation(states[key])
    /\ (pc = "gs_failed" /\ cs.err = NodesWrong) => cs.result = DefaultState

\* C3 witness: the cache holds a converged state whose grid starts inside
\* the finite nucleus, with one node more in Q than in P.
C3_Witness ==
    \E key \in DOMAIN states :
        /\ states[key].init
        /\ InsideNucleus(states[key])
        /\ states[key].nodesQ = states[key].nodes + 1

\* C19: when calcState finds a state off the target, it rescales E0 in the
\* direction given by the sign of the found state's nodes minus the nodes
\* asked for: E0 / Esearch when the difference is positive, E0 * Esearch
\* when it is negative (the two branches of line 976).
C19_RescaleFollowsNodeDifference ==
    [][(pc = "calc_check" /\ pc' # "calc_check"
           /\ getn(cs.state, cs.key[2]) # cs.key[1]) =>
          cs'.E0 = IF cs.state.nodes - TargetNodes(cs.key) > 0
                   THEN RoundDiv(cs.E0 * Esearch.den, Esearch.num)
                   ELSE RoundDiv(cs.E0 * Esearch.num, Esearch.den)]_vars

\* C21: between calls, every entry of the cache is an initialized converged
\* state: a getState that failed has left no default entry behind.
C21_NoPlaceholderAfterFailure ==
    AtomIdle => \A key \in DOMAIN states :
                    states[key].init /\ states[key] # DefaultState

\* C24: a getState(n, l, s) removes no cache entry, adds or changes entries
\* only under keys with the l and s of the request, and stores every
\* off-target state it finds under (n', l, s) with n' the state's own
\* principal number.
C24_OnlyRequestedSubshellWritten ==
    [][/\ DOMAIN states \subseteq DOMAIN states'
       /\ \A key \in DOMAIN states' :
            (key \notin DOMAIN states \/ states'[key] # states[key]) =>
                key[2] = cs'.key[2] /\ key[3] = cs'.key[3]
       /\ (pc = "calc_check" /\ getn(cs.state, cs.key[2]) # cs.key[1]) =>
            LET own == <<getn(cs.state, cs.key[2]), cs.key[2], cs.key[3]>>
            IN  own \in DOMAIN states' /\ states'[own] = cs.state]_vars

\* C24 witness: after two calls for different (l, s) the cache holds entries
\* of both, one of them an off-target state under its own principal number.
C24_Witness ==
    /\ AtomIdle /\ cs.calls = 2
    /\ \E k1 \in DOMAIN states, k2 \in DOMAIN states :
          /\ k1[2] # k2[2]
          /\ k1[1] # 2 /\ states[k1].init /\ getn(states[k1], k1[2]) = k1[1]

\* C25: the state getState returns agrees with the cached entry in every
\* field, and its potential has the length i1 - i0 + 1 of its wavefunction.
C25_ReturnedStateIsFaithfulCopy ==
    pc = "gs_done" =>
        /\ cs.result = states[cs.key]
        /\ cs.result.lenV = cs.result.i1 - cs.result.i0 + 1
        /\ cs.result.lenV = cs.result.lenP

\* C26: every failure of a getState call is caught by the handlers of the
\* driver.
C26_DriverCatchesEveryGetStateFailure ==
    pc = "gs_failed" => DriverCatches(cs.err)

\* a getState call is between its entry and its return or throw
GetStateRunning ==
    pc \in {"cs_loop", "cs_finish", "calc_check", "calc_store", "gs_copy"}

\* C28: every getState call ends, returning a state or raising an error,
\* after at most maxit rounds of the retry loop of calcState, at most maxit
\* iterations of each convergeState and at most maxit * maxit integrations.
C28_GetStateTerminatesWithinBudget ==
    /\ [](cs.op = "getState" =>
            /\ cs.integ <= maxit * maxit
            /\ cs.cit <= maxit /\ cs.it <= maxit)
    /\ (GetStateRunning ~> AtomIdle)

\* C28 witness: a getState call has ended after more integrations than one
\* convergeState can make, that is after a retry of calcState.
C28_Witness ==
    /\ pc \in {"gs_done", "gs_failed"} /\ cs.op = "getState"
    /\ maxit > 1 /\ cs.integ > maxit

====
